---- MODULE Spec2Model ----
(***************************************************************************)
(* Model of framework/wazuh/cluster.py: the Node class of the cluster      *)
(* synchronisation engine (send_request_api, update_file, sync,            *)
(* cluster_nodes).                                                         *)
(*                                                                         *)
(* An inventory record is abstracted to its checksum, size and             *)
(* modification time (the three values the comparison reads); a file on    *)
(* disk has, besides these, an owner, a group and a permission mode.  A    *)
(* modification time is the number of seconds its "%Y-%m-%d %H:%M:%S"      *)
(* string denotes.  The peers, their                                       *)
(* inventories and the local disk are the environment, drawn in Init; the  *)
(* outcome of each HTTP request and of each installer step is drawn when   *)
(* the request or step happens.                                            *)
(***************************************************************************)
EXTENDS Integers, Sequences, FiniteSets, TLC

VARIABLES
    nodes,           \* config_cluster["cluster.nodes"]: peer addresses in order
    disk,            \* local files at their target paths: name -> file state
    tmp,             \* temporary siblings "<name>.tmp.cluster" on the local disk
    peer_files,      \* the inventory each peer serves on /manager/files
    pc,              \* position of the running call
    calls,           \* number of sync passes started so far
    own_items,       \* sync: the local inventory read at the start of the pass
    their_items,     \* sync: the inventory of the peer being processed
    idx,             \* index in nodes of the peer being processed
    download_list,   \* sync: accepted items of the current peer
    dl_idx,          \* sync: index in download_list of the next item
    discard_list,    \* sync: report list 'discard'
    sychronize_list, \* sync: report list 'updated'
    error_list,      \* sync: report list 'error'
    decided,         \* history: every item that reached a decision in this pass
    prev_updated,    \* the 'updated' list returned by the previous pass
    trace,           \* history: requests sent and installs attempted in this pass
    raised,          \* exception that left the running call ("none" if none)
    data,            \* cluster_nodes: the entries built so far
    api_in,          \* send_request_api: the request whose outcome is classified
    api_out,         \* send_request_api: the pair it returned
    ret              \* the value the last call returned (NoValue if none)

vars == <<nodes, disk, tmp, peer_files, pc, calls, own_items, their_items, idx,
          download_list, dl_idx, discard_list, sychronize_list, error_list,
          decided, prev_updated, trace, raised, data, api_in, api_out, ret>>

(***************************************************************************)
(* Bounds                                                                  *)
(***************************************************************************)
\* number of peer addresses that exist
NumPeers == 2
\* checksums, sizes and modification times range over 1..MaxVal
MaxVal == 2
\* number of consecutive sync passes
MaxCalls == 2

Peers == 1..NumPeers
Names == {"a", "b"}
Values == 1..MaxVal
\* str(e): the message of an exception
Messages == {[message |-> "msg"]}

Range(s) == {s[i] : i \in DOMAIN s}

\* the sequences that enumerate the finite set S, each element once
Orderings(S) ==
    {s \in [1..Cardinality(S) -> S] : \A i, j \in DOMAIN s : s[i] = s[j] => i = j}

(***************************************************************************)
(* Records                                                                 *)
(***************************************************************************)
CondNames == <<"different_md5", "remote_time_higher", "larger_file_size">>

ConditionSets == [different_md5 : BOOLEAN, remote_time_higher : BOOLEAN,
                  larger_file_size : BOOLEAN]

\* an entry of the local inventory
LocalRecords == [md5 : Values, size : Values, modification_time : Values]

\* an entry of a peer inventory
RemoteRecords == [md5 : Values, size : Values, modification_time : Values,
                  conditions : ConditionSets]

\* the inventories over the record set R: a record for some of the names N
InventoriesOver(N, R) == UNION {[S -> R] : S \in SUBSET N}

NoItems == [n \in {} |-> 0]

\* the absence of a value (None)
NoValue == [none |-> TRUE]

(***************************************************************************)
(* The HTTP transport: what requests.get can do                            *)
(***************************************************************************)
\* a response body that is no JSON document
NotJson == [invalid |-> TRUE]

\* a response body: the document json.loads reads from it, and the checksum
\* and size it has when it is written to a file
Text(json, md5, size) == [json |-> json, md5 |-> md5, size |-> size]

NoText == Text(NotJson, 0, 0)

\* the exceptions requests.get is modelled to raise
ExcClasses == {"Timeout", "ConnectTimeout", "TooManyRedirects",
               "ConnectionError", "ValueError"}

\* the classes an exception is an instance of
ExcBases(e) ==
    CASE e = "Timeout"          -> {"Timeout", "RequestException", "Exception"}
      [] e = "ConnectTimeout"   -> {"ConnectTimeout", "ConnectionError", "Timeout",
                                    "RequestException", "Exception"}
      [] e = "TooManyRedirects" -> {"TooManyRedirects", "RequestException", "Exception"}
      [] e = "ConnectionError"  -> {"ConnectionError", "RequestException", "Exception"}
      [] OTHER                  -> {e, "Exception"}

\* status codes of a response that carries the body asked for
Statuses == {200, 500}

\* the outcomes of one GET: an exception, a refusal (401) with a body among
\* refusals, or a response with a body among texts
OutcomesOf(texts, refusals) ==
    {[exc |-> e, msg |-> m, status |-> 0, text |-> NoText] :
        e \in ExcClasses, m \in Messages}
    \cup {[exc |-> "none", msg |-> NoValue, status |-> 401, text |-> t] :
        t \in refusals}
    \cup {[exc |-> "none", msg |-> NoValue, status |-> s, text |-> t] :
        s \in Statuses, t \in texts}

\* the outcomes of a GET sent to a peer: a peer refuses with a body that is no
\* JSON document
Outcomes(texts) == OutcomesOf(texts, {NoText})

(***************************************************************************)
(* Node.send_request_api                                                   *)
(***************************************************************************)
\* the except clauses with the clause for RequestException first
HandlersGeneralFirst == << [cls |-> "RequestException", error |-> 3],
                           [cls |-> "Timeout",          error |-> 1],
                           [cls |-> "TooManyRedirects", error |-> 2],
                           [cls |-> "Exception",        error |-> 4] >>

\* the except clauses of the try statement, in textual order
Handlers == << [cls |-> "Timeout",          error |-> 1],
               [cls |-> "TooManyRedirects", error |-> 2],
               [cls |-> "RequestException", error |-> 3],
               [cls |-> "Exception",        error |-> 4] >>

\* the error code of the first except clause, from clause i on, that matches
\* an exception with these base classes
RECURSIVE FirstHandler(_, _, _)
FirstHandler(handlers, bases, i) ==
    IF i > Len(handlers) THEN 0
    ELSE IF handlers[i].cls \in bases THEN handlers[i].error
    ELSE FirstHandler(handlers, bases, i + 1)

\* the try statement: the GET and the check of the status code
TryGet(o) ==
    IF o.exc # "none"
    THEN [error |-> FirstHandler(Handlers, ExcBases(o.exc), 1), data |-> o.msg]
    ELSE IF o.status = 401
    THEN [error |-> 401, data |-> o.text]
    ELSE [error |-> 0, data |-> NoValue]

JsonErrorMsg == [message |-> "No JSON object could be decoded"]

\* the pair (error, data) send_request_api returns for outcome o of the GET
SendRequestApi(o, type) ==
    LET t == TryGet(o) IN
    IF t.error = 0
    THEN IF type = "json"
         THEN IF o.text.json = NotJson
              THEN [error |-> 5, data |-> JsonErrorMsg]
              ELSE [error |-> 0, data |-> o.text.json]
         ELSE [error |-> 0, data |-> o.text]
    ELSE t

(***************************************************************************)
(* Node.update_file                                                        *)
(***************************************************************************)
\* the steps of update_file that can fail
InstallSteps == {"open", "write", "chown", "chmod", "utime", "rename"}

\* the clock reads later than every time an inventory records
Now == MaxVal + 1

\* mode 0o660 of line 159
ServiceMode == 432

\* a file: its content (checksum and size), modification time, owner, group
\* and permission mode
File(md5, size, mtime, user, group, mode) ==
    [md5 |-> md5, size |-> size, modification_time |-> mtime,
     user |-> user, group |-> group, mode |-> mode]

\* the empty file open() creates: it belongs to the running process (root,
\* with umask 022: mode 0o644)
Created == File(0, 0, Now, "root", "root", 420)

\* files, with f removed
Without(files, f) == [n \in DOMAIN files \ {f} |-> files[n]]

\* files, with file put at f
With(files, f, file) ==
    [n \in DOMAIN files \cup {f} |-> IF n = f THEN file ELSE files[n]]

\* the filesystem: the files at their target paths and the temporary siblings
Fs(d, t) == [disk |-> d, tmp |-> t]

\* line 144: open(f_temp, "w") creates the temporary file or truncates the
\* one a previous call left
Open(fs, f) ==
    Fs(fs.disk,
       With(fs.tmp, f,
            IF f \in DOMAIN fs.tmp
            THEN [fs.tmp[f] EXCEPT !.md5 = 0, !.size = 0, !.modification_time = Now]
            ELSE Created))

\* a write that goes to the target path itself
WriteInPlace(fs, f, content) ==
    Fs(With(fs.disk, f,
            IF f \in DOMAIN fs.disk
            THEN [fs.disk[f] EXCEPT !.md5 = content.md5, !.size = content.size,
                                    !.modification_time = Now]
            ELSE [Created EXCEPT !.md5 = content.md5, !.size = content.size]),
       fs.tmp)

\* lines 145-146: write the content to the temporary file and close it
Write(fs, f, content) ==
    Fs(fs.disk,
       [fs.tmp EXCEPT ![f].md5 = content.md5, ![f].size = content.size,
                      ![f].modification_time = Now])

\* lines 150-152, disabled in the code: the owner and group the caller passes
ChownDeclared(fs, f, owner, group) ==
    Fs(fs.disk, [fs.tmp EXCEPT ![f].user = owner, ![f].group = group])

\* lines 156-158: the temporary file is given to user ossec and group ossec,
\* whatever owner and group the caller passes
Chown(fs, f, owner, group) ==
    Fs(fs.disk, [fs.tmp EXCEPT ![f].user = "ossec", ![f].group = "ossec"])

\* line 159: mode 0o660, whatever mode the caller passes
Chmod(fs, f, mode) ==
    Fs(fs.disk, [fs.tmp EXCEPT ![f].mode = ServiceMode])

\* lines 161-162: the modification time becomes the one mtime denotes
Utime(fs, f, mtime) ==
    Fs(fs.disk, [fs.tmp EXCEPT ![f].modification_time = mtime])

\* line 165: the temporary file replaces the target
Rename(fs, f) ==
    Fs(With(fs.disk, f, fs.tmp[f]), Without(fs.tmp, f))

\* update_file(fullpath, content, owner, group, mode, mtime) on target files d
\* and temporary files t, when step fail raises ("none": no step does)
UpdateFile(d, t, fullpath, content, owner, group, mode, mtime, fail) ==
    LET fs0 == Fs(d, t)
        fs1 == Open(fs0, fullpath)
        fs2 == Write(fs1, fullpath, content)
        fs3 == Chown(fs2, fullpath, owner, group)
        fs4 == Chmod(fs3, fullpath, mode)
        fs5 == Utime(fs4, fullpath, mtime)
        fs6 == Rename(fs5, fullpath)
        end(ok, fs) == [ok |-> ok, disk |-> fs.disk, tmp |-> fs.tmp]
    IN
    CASE fail = "open"   -> end(FALSE, fs0)
      [] fail = "write"  -> end(FALSE, fs1)
      [] fail = "chown"  -> end(FALSE, fs2)
      [] fail = "chmod"  -> end(FALSE, fs3)
      [] fail = "utime"  -> end(FALSE, fs4)
      [] fail = "rename" -> end(FALSE, fs5)
      [] OTHER           -> end(TRUE, fs6)

\* the owners, groups and modes a caller of update_file can pass
Declared == [user : {"root", "ossec"}, group : {"root", "ossec"},
             mode : {ServiceMode, 511}]

\* the owner, group and mode the record of a peer declares for a file: those
\* of the service, or root with every permission
PeerDeclared ==
    {d \in Declared : d.user = d.group /\ (d.mode = ServiceMode) = (d.user = "ossec")}

\* the files of the records R as an earlier install left them
Installed(R) ==
    {File(r.md5, r.size, r.modification_time, "ossec", "ossec", ServiceMode) : r \in R}

\* manager.get_files(): the inventory of the local files
GetFiles(d) ==
    [n \in DOMAIN d |-> [md5 |-> d[n].md5, size |-> d[n].size,
                         modification_time |-> d[n].modification_time]]

(***************************************************************************)
(* Node.sync: the comparison of one shared file                            *)
(***************************************************************************)
\* comparisons that also hold of equal times and sizes
HoldsNotStrict(c, remote, local) ==
    CASE c = "different_md5"      -> remote.md5 # local.md5
      [] c = "remote_time_higher" -> remote.modification_time >= local.modification_time
      [] c = "larger_file_size"   -> remote.size >= local.size

\* the comparison a condition stands for
Holds(c, remote, local) ==
    CASE c = "different_md5"      -> remote.md5 # local.md5
      [] c = "remote_time_higher" -> remote.modification_time > local.modification_time
      [] c = "larger_file_size"   -> remote.size > local.size

\* checked_conditions: the conditions the remote record declares, in the
\* order the three if statements append them
CheckedConditions(remote) ==
    SelectSeq(CondNames, LAMBDA c : remote.conditions[c])

\* the results up to the first false one, were evaluation to stop there
ConditionsUntilFalse(remote, local) ==
    LET checked == SelectSeq(CondNames, LAMBDA c : remote.conditions[c])
        upto == {i \in DOMAIN checked :
                    \A j \in 1..(i - 1) : Holds(checked[j], remote, local)}
    IN [c \in {checked[i] : i \in upto} |-> Holds(c, remote, local)]

\* conditions: the result of every condition the remote record declares
Conditions(remote, local) ==
    [c \in Range(CheckedConditions(remote)) |-> Holds(c, remote, local)]

\* all_conds: the number of true results before the first false one
RECURSIVE AllConds(_, _, _)
AllConds(checked, conditions, i) ==
    IF i > Len(checked) THEN 0
    ELSE IF conditions[checked[i]] THEN 1 + AllConds(checked, conditions, i + 1)
    ELSE 0

\* whether the item of a shared file goes to download_list
Accepted(remote, local) ==
    AllConds(CheckedConditions(remote), Conditions(remote, local), 1)
        = Len(CheckedConditions(remote))

\* check_item of a shared file
CheckItem(filename, node, remote, local) ==
    [file |-> [name |-> filename, md5 |-> remote.md5, size |-> remote.size,
               modification_time |-> remote.modification_time,
               conditions |-> remote.conditions],
     checked_conditions |-> Conditions(remote, local),
     updated |-> FALSE,
     node |-> node]

ItemKey(item) == <<item.node, item.file.name>>

(***************************************************************************)
(* What the peers answer                                                   *)
(***************************************************************************)
\* a JSON document of the API that has no "data" member
ApiErrorDoc == [error |-> 1000, message |-> "msg"]

\* bodies a peer can send for /manager/files
FilesTexts(node) ==
    {Text([data |-> peer_files[node]], 0, 0), Text(ApiErrorDoc, 0, 0), NoText}

\* bodies a peer can send for /manager/files?download=<name>: the file its
\* inventory describes, or something else
DownloadTexts(node, filename) ==
    {Text(NotJson, their_items[filename].md5, their_items[filename].size), NoText}

\* the identity a peer reports on /cluster/node
NodeName(node) == <<"node", node>>

\* bodies a peer can send for /cluster/node
NodeTexts(node) ==
    {Text([data |-> [node |-> NodeName(node)]], 0, 0), Text(ApiErrorDoc, 0, 0), NoText}

Event(ev, node, name, ok) == [ev |-> ev, node |-> node, name |-> name, ok |-> ok]

(***************************************************************************)
(* Node.sync                                                               *)
(***************************************************************************)
\* lines 174-192: read the configuration and the local inventory
Start ==
    /\ calls' = calls + 1
    /\ own_items' = GetFiles(disk)
    /\ prev_updated' = IF pc = "done" THEN sychronize_list ELSE <<>>
    /\ discard_list' = <<>>
    /\ sychronize_list' = <<>>
    /\ error_list' = <<>>
    /\ download_list' = <<>>
    /\ dl_idx' = 1
    /\ their_items' = NoItems
    /\ idx' = 1
    /\ decided' = {}
    /\ trace' = <<>>
    /\ raised' = "none"
    /\ ret' = NoValue
    /\ pc' = "fetch"
    /\ UNCHANGED <<nodes, disk, tmp, peer_files, data, api_in, api_out>>

\* the first pass
SyncStart ==
    /\ pc = "idle"
    /\ Start

\* the caller runs another pass after one that returned or raised
SyncAgain ==
    /\ pc \in {"done", "raised"}
    /\ calls < MaxCalls
    /\ Start

\* a fetch failure that ends the loop over the peers (break for continue)
FetchErrorBreak(node, r) ==
    /\ error_list' = Append(error_list,
           [node |-> node, api_error |-> r.data, code |-> r.error])
    /\ idx' = Len(nodes) + 1
    /\ UNCHANGED <<pc, their_items, raised>>

\* a fetch failure after which the peer is compared all the same, against the
\* inventory fetched last
FetchErrorCompare(node, r) ==
    /\ error_list' = Append(error_list,
           [node |-> node, api_error |-> r.data, code |-> r.error])
    /\ pc' = "compare"
    /\ UNCHANGED <<idx, their_items, raised>>

\* lines 199-201: the fetch failed; record it and continue with the next peer
FetchError(node, r) ==
    /\ error_list' = Append(error_list,
           [node |-> node, api_error |-> r.data, code |-> r.error])
    /\ idx' = idx + 1
    /\ UNCHANGED <<pc, their_items, raised>>

\* lines 193-204: the next peer; fetch its inventory
SyncFetch ==
    /\ pc = "fetch"
    /\ idx <= Len(nodes)
    /\ LET node == nodes[idx] IN
       \E o \in Outcomes(FilesTexts(node)) :
          LET r == SendRequestApi(o, "json") IN
          /\ trace' = Append(trace, Event("files", node, "", r.error = 0))
          /\ download_list' = <<>>
          /\ dl_idx' = 1
          /\ IF r.error # 0
             THEN FetchError(node, r)
             ELSE IF "data" \notin DOMAIN r.data
             THEN \* line 204: response["data"] raises KeyError
                  /\ raised' = "KeyError"
                  /\ pc' = "raised"
                  /\ UNCHANGED <<error_list, idx, their_items>>
             ELSE /\ their_items' = r.data.data
                  /\ pc' = "compare"
                  /\ UNCHANGED <<error_list, idx, raised>>
    /\ UNCHANGED <<nodes, disk, tmp, peer_files, calls, own_items, discard_list,
                   sychronize_list, decided, prev_updated, data, api_in, api_out, ret>>

\* the inventory of the local files as they are now
LocalFilesNow == GetFiles(disk)

\* lines 207-227: the local inventory the comparison reads is own_items, read
\* at the start of the pass
LocalFiles == own_items

\* the items of seq that are, or are not, accepted
RECURSIVE Select(_, _)
Select(items, accept) ==
    IF items = <<>> THEN <<>>
    ELSE LET rest == Select(Tail(items), accept)
             item == Head(items)
             ok   == Accepted(their_items[item.file.name], LocalFiles[item.file.name])
         IN IF ok = accept THEN <<item>> \o rest ELSE rest

\* lines 206-309: partition the names, compare the shared files, queue the
\* files missing locally
SyncCompare ==
    /\ pc = "compare"
    /\ LET node == nodes[idx]
           missing_files_locally == DOMAIN their_items \ DOMAIN LocalFiles
           shared_files == DOMAIN LocalFiles \cap DOMAIN their_items
       IN
       \E order \in Orderings(shared_files) :
          LET items == [i \in DOMAIN order |->
                          CheckItem(order[i], node, their_items[order[i]],
                                    LocalFiles[order[i]])]
          IN
          /\ discard_list' = discard_list \o Select(items, FALSE)
          /\ decided' = decided \cup
                 {[item |-> it,
                   accept |-> Accepted(their_items[it.file.name],
                                       LocalFiles[it.file.name])] : it \in Range(items)}
          /\ IF missing_files_locally # {}
             THEN \* line 306: node is a string, node["node"] raises TypeError
                  /\ raised' = "TypeError"
                  /\ pc' = "raised"
                  /\ download_list' = Select(items, TRUE)
                  /\ UNCHANGED idx
             ELSE /\ download_list' = Select(items, TRUE)
                  /\ IF Select(items, TRUE) = <<>>
                     THEN pc' = "fetch" /\ idx' = idx + 1
                     ELSE pc' = "download" /\ idx' = idx
                  /\ UNCHANGED raised
    /\ dl_idx' = 1
    /\ UNCHANGED <<nodes, disk, tmp, peer_files, calls, own_items, their_items,
                   sychronize_list, error_list, prev_updated, trace, data,
                   api_in, api_out, ret>>

\* a download failure that ends the loop over the items of the peer
DownloadErrorBreak(item, r, last) ==
    /\ error_list' = Append(error_list, [item |-> item, reason |-> r.data])
    /\ dl_idx' = Len(download_list) + 1
    /\ pc' = "fetch"
    /\ idx' = idx + 1
    /\ UNCHANGED <<disk, tmp, sychronize_list, download_list, raised>>

\* lines 319-321: the download failed; record it and continue with the next item
DownloadError(item, r, last) ==
    /\ error_list' = Append(error_list, [item |-> item, reason |-> r.data])
    /\ dl_idx' = dl_idx + 1
    /\ pc' = IF last THEN "fetch" ELSE "download"
    /\ idx' = IF last THEN idx + 1 ELSE idx
    /\ UNCHANGED <<disk, tmp, sychronize_list, download_list, raised>>

\* lines 314-332: one round of the download loop
SyncDownload ==
    /\ pc = "download"
    /\ LET node == nodes[idx]
           item == download_list[dl_idx]
           name == item.file.name
           last == dl_idx = Len(download_list)
       IN
       \E o \in Outcomes(DownloadTexts(node, name)) :
          LET r == SendRequestApi(o, "text") IN
          IF r.error # 0
          THEN /\ trace' = Append(trace, Event("download", node, name, FALSE))
               /\ DownloadError(item, r, last)
          ELSE \E fail \in InstallSteps \cup {"none"}, m \in Messages, decl \in PeerDeclared :
               LET u == UpdateFile(disk, tmp, name, r.data, decl.user, decl.group,
                                   decl.mode, item.file.modification_time, fail)
               IN
               /\ disk' = u.disk
               /\ tmp' = u.tmp
               /\ trace' = trace \o <<Event("download", node, name, TRUE),
                                      Event("install", node, name, u.ok)>>
               /\ IF u.ok
                  THEN /\ download_list' = [download_list EXCEPT ![dl_idx].updated = TRUE]
                       /\ sychronize_list' =
                              Append(sychronize_list, [item EXCEPT !.updated = TRUE])
                       /\ dl_idx' = dl_idx + 1
                       /\ pc' = IF last THEN "fetch" ELSE "download"
                       /\ idx' = IF last THEN idx + 1 ELSE idx
                       /\ UNCHANGED <<error_list, raised>>
                  ELSE \* lines 325-327: record the failure, then re-raise it
                       /\ error_list' = Append(error_list, [item |-> item, reason |-> m])
                       /\ raised' = "OSError"
                       /\ pc' = "raised"
                       /\ UNCHANGED <<download_list, sychronize_list, dl_idx, idx>>
    /\ UNCHANGED <<nodes, peer_files, calls, own_items, their_items, discard_list,
                   decided, prev_updated, data, api_in, api_out, ret>>

\* lines 334-341: every peer was processed; return the report
SyncReturn ==
    /\ pc = "fetch"
    /\ idx > Len(nodes)
    /\ ret' = [discard |-> discard_list, error |-> error_list,
               updated |-> sychronize_list]
    /\ pc' = "done"
    /\ UNCHANGED <<nodes, disk, tmp, peer_files, calls, own_items, their_items, idx,
                   download_list, dl_idx, discard_list, sychronize_list, error_list,
                   decided, prev_updated, trace, raised, data, api_in, api_out>>

(***************************************************************************)
(* Node.cluster_nodes                                                      *)
(***************************************************************************)
\* lines 61-66: read the configuration
NodesStart ==
    /\ pc = "idle"
    /\ data' = <<>>
    /\ idx' = 1
    /\ pc' = "probe"
    /\ UNCHANGED <<nodes, disk, tmp, peer_files, calls, own_items, their_items,
                   download_list, dl_idx, discard_list, sychronize_list, error_list,
                   decided, prev_updated, trace, raised, api_in, api_out, ret>>

\* lines 67-87: probe the next peer
NodesProbe ==
    /\ pc = "probe"
    /\ idx <= Len(nodes)
    /\ LET url == nodes[idx] IN
       \E o \in Outcomes(NodeTexts(url)) :
          LET r == SendRequestApi(o, "json") IN
          /\ trace' = Append(trace, Event("node", url, "", r.error = 0))
          /\ IF r.error # 0
             THEN /\ data' = Append(data,
                        [url |-> url,
                         error |-> [api_error |-> r.data, code |-> r.error],
                         status |-> "disconnected"])
                  /\ idx' = idx + 1
                  /\ UNCHANGED <<pc, raised>>
             ELSE IF "data" \notin DOMAIN r.data
             THEN /\ raised' = "KeyError"
                  /\ pc' = "raised"
                  /\ UNCHANGED <<data, idx>>
             ELSE /\ data' = Append(data,
                        [url |-> url, node |-> r.data.data.node,
                         status |-> "connected"])
                  /\ idx' = idx + 1
                  /\ UNCHANGED <<pc, raised>>
    /\ UNCHANGED <<nodes, disk, tmp, peer_files, calls, own_items, their_items,
                   download_list, dl_idx, discard_list, sychronize_list, error_list,
                   decided, prev_updated, api_in, api_out, ret>>

\* line 89: every peer was probed; return the entries
NodesReturn ==
    /\ pc = "probe"
    /\ idx > Len(nodes)
    /\ ret' = [items |-> data, totalItems |-> Len(data)]
    /\ pc' = "done"
    /\ UNCHANGED <<nodes, disk, tmp, peer_files, calls, own_items, their_items, idx,
                   download_list, dl_idx, discard_list, sychronize_list, error_list,
                   decided, prev_updated, trace, raised, data, api_in, api_out>>

(***************************************************************************)
(* Node.update_file, step by step                                          *)
(***************************************************************************)
\* the call update_file(api_in.fullpath, api_in.content, ...) is at position
\* at, before step; the step either raises exc or leaves the filesystem fs and
\* goes on to position next
Step(at, step, next, exc, fs) ==
    /\ pc = at
    /\ \E ok \in BOOLEAN :
          /\ trace' = Append(trace, Event(step, 0, api_in.fullpath, ok))
          /\ IF ok
             THEN /\ disk' = fs.disk
                  /\ tmp' = fs.tmp
                  /\ pc' = next
                  /\ UNCHANGED raised
             ELSE /\ raised' = exc
                  /\ pc' = "raised"
                  /\ UNCHANGED <<disk, tmp>>
    /\ UNCHANGED <<nodes, peer_files, calls, own_items, their_items, idx,
                   download_list, dl_idx, discard_list, sychronize_list, error_list,
                   decided, prev_updated, data, api_in, api_out, ret>>

\* line 144
UpdateOpen ==
    Step("idle", "open", "write", "IOError", Open(Fs(disk, tmp), api_in.fullpath))

\* lines 145-146
UpdateWrite ==
    Step("write", "write", "chown", "IOError",
         Write(Fs(disk, tmp), api_in.fullpath, api_in.content))

\* lines 156-158
UpdateChown ==
    Step("chown", "chown", "chmod", "OSError",
         Chown(Fs(disk, tmp), api_in.fullpath, api_in.owner, api_in.group))

\* line 159
UpdateChmod ==
    Step("chmod", "chmod", "utime", "OSError",
         Chmod(Fs(disk, tmp), api_in.fullpath, api_in.mode))

\* lines 161-162
UpdateUtime ==
    Step("utime", "utime", "rename", "OSError",
         Utime(Fs(disk, tmp), api_in.fullpath, api_in.mtime))

\* line 165; the call returns
UpdateRename ==
    Step("rename", "rename", "done", "OSError", Rename(Fs(disk, tmp), api_in.fullpath))

\* one call of send_request_api on the outcome api_in.o of its GET
ApiCall ==
    /\ pc = "idle"
    /\ api_out' = SendRequestApi(api_in.o, api_in.type)
    /\ pc' = "done"
    /\ UNCHANGED <<nodes, disk, tmp, peer_files, calls, own_items, their_items, idx,
                   download_list, dl_idx, discard_list, sychronize_list, error_list,
                   decided, prev_updated, trace, raised, data, api_in, ret>>

(***************************************************************************)
(* The clusters a pass is run on                                           *)
(***************************************************************************)
\* the configurations: some of the peers, each once, in any order
Configs == UNION {Orderings(S) : S \in SUBSET Peers}

\* the configurations that list the first k peers in order
Prefixes == {[i \in 1..k |-> i] : k \in 0..NumPeers}

\* nothing is running
Idle ==
    /\ pc = "idle"
    /\ calls = 0
    /\ own_items = NoItems
    /\ their_items = NoItems
    /\ idx = 1
    /\ download_list = <<>>
    /\ dl_idx = 1
    /\ discard_list = <<>>
    /\ sychronize_list = <<>>
    /\ error_list = <<>>
    /\ decided = {}
    /\ prev_updated = <<>>
    /\ trace = <<>>
    /\ raised = "none"
    /\ data = <<>>
    /\ api_out = NoValue
    /\ ret = NoValue

\* version v of a file: a later version has another checksum, is larger and newer
Version(v, c) == [md5 |-> v, size |-> v, modification_time |-> v, conditions |-> c]

\* the peers of such a cluster declare every condition
Policies == {[different_md5 |-> TRUE, remote_time_higher |-> TRUE,
              larger_file_size |-> TRUE]}

VersionRecords == {Version(v, c) : v \in Values, c \in Policies}

LocalVersions == {[md5 |-> v, size |-> v, modification_time |-> v] : v \in Values}

\* a cluster of up to NumPeers peers whose files come in versions
Init ==
    /\ nodes \in Prefixes
    /\ disk \in InventoriesOver(Names, Installed(LocalVersions))
    /\ peer_files \in [Range(nodes) -> InventoriesOver(Names, VersionRecords)]
    /\ tmp = NoItems
    /\ api_in = NoValue
    /\ Idle

Next ==
    \/ SyncStart
    \/ SyncFetch
    \/ SyncCompare
    \/ SyncDownload
    \/ SyncReturn

Spec == Init /\ [][Next]_vars

\* one peer and one file name, with every combination of checksum, size,
\* modification time and declared conditions on either side
InitFiles ==
    /\ nodes = <<1>>
    /\ disk \in InventoriesOver({"a"}, Installed(LocalRecords))
    /\ peer_files \in [Range(nodes) -> InventoriesOver({"a"}, RemoteRecords)]
    /\ tmp = NoItems
    /\ api_in = NoValue
    /\ Idle

SpecFiles == InitFiles /\ [][Next]_vars

\* versions of one file under every combination of declared conditions
PolicyRecords == {Version(v, c) : v \in Values, c \in ConditionSets}

\* a cluster of up to NumPeers peers that hold versions of one file, each
\* declaring any conditions
InitPasses ==
    /\ nodes \in Prefixes
    /\ disk \in InventoriesOver({"a"}, Installed(LocalVersions))
    /\ peer_files \in [Range(nodes) -> InventoriesOver({"a"}, PolicyRecords)]
    /\ tmp = NoItems
    /\ api_in = NoValue
    /\ Idle

\* the passes of a caller that runs sync again
NextPasses ==
    \/ Next
    \/ SyncAgain

SpecPasses == InitPasses /\ [][NextPasses]_vars

\* the peers of any configuration, for the enumeration of the peers
InitNodes ==
    /\ nodes \in Configs
    /\ disk = NoItems
    /\ peer_files = [p \in Range(nodes) |-> NoItems]
    /\ tmp = NoItems
    /\ api_in = NoValue
    /\ Idle

NextNodes ==
    \/ NodesStart
    \/ NodesProbe
    \/ NodesReturn

SpecNodes == InitNodes /\ [][NextNodes]_vars

\* bodies of any kind, for the classification of the outcomes of a GET
ApiTexts ==
    {Text([data |-> NoItems], 0, 0), Text([data |-> [node |-> NodeName(1)]], 0, 0),
     Text(ApiErrorDoc, 0, 0), NoText}
    \cup {Text(NotJson, m, s) : m \in Values, s \in Values}

InitApi ==
    /\ nodes = <<>>
    /\ disk = NoItems
    /\ peer_files = NoItems
    /\ tmp = NoItems
    /\ api_in \in [o : OutcomesOf(ApiTexts, ApiTexts), type : {"json", "text"}]
    /\ Idle

NextApi == ApiCall

SpecApi == InitApi /\ [][NextApi]_vars

\* the files a target path can hold before a call of update_file: installed
\* ones, and one that was put there by other means
TargetFiles ==
    Installed(LocalVersions) \cup {File(v, v, v, "root", "root", 420) : v \in Values}

\* the temporary files an earlier call that failed can have left
Leftovers ==
    {Created} \cup {File(v, v, Now, "ossec", "ossec", ServiceMode) : v \in Values}

\* the calls update_file(fullpath, content, owner, group, mode, mtime)
UpdateCalls ==
    [fullpath : {"a"}, content : {Text(NotJson, v, v) : v \in Values},
     owner : {d.user : d \in Declared}, group : {d.group : d \in Declared},
     mode : {d.mode : d \in Declared}, mtime : Values]

\* one call of update_file on any target, with or without a leftover
InitInstall ==
    /\ nodes = <<>>
    /\ peer_files = NoItems
    /\ disk \in InventoriesOver({"a", "b"}, TargetFiles)
    /\ tmp \in InventoriesOver({"a"}, Leftovers)
    /\ api_in \in UpdateCalls
    /\ Idle

NextInstall ==
    \/ UpdateOpen
    \/ UpdateWrite
    \/ UpdateChown
    \/ UpdateChmod
    \/ UpdateUtime
    \/ UpdateRename

SpecInstall == InitInstall /\ [][NextInstall]_vars

(***************************************************************************)
(* Properties of the report of a pass                                      *)
(***************************************************************************)
\* the number of elements of seq that satisfy Test
Count(seq, Test(_)) == Cardinality({i \in DOMAIN seq : Test(seq[i])})

\* how often the item with key k occurs in the three lists of the report
Occurrences(k) ==
    Count(discard_list, LAMBDA it : ItemKey(it) = k)
    + Count(error_list, LAMBDA e : "item" \in DOMAIN e /\ ItemKey(e.item) = k)
    + Count(sychronize_list, LAMBDA it : ItemKey(it) = k)

\* the last element of a non-empty sequence
Last(seq) == seq[Len(seq)]

\* this step appended the event of a request or an install of kind ev that failed
Failed(ev) ==
    /\ Len(trace') = Len(trace) + 1
    /\ Last(trace').ev = ev
    /\ ~Last(trace').ok

\* C1: when sync has finished (returned or raised), every item that reached
\* a decision is in exactly one of the lists discard, error and updated.
C1_DecidedInExactlyOneList ==
    (pc \in {"done", "raised"} /\ calls > 0) =>
        \A d \in decided : Occurrences(ItemKey(d.item)) = 1

\* C2: a failing installer leaves no exception in the caller: the item is in
\* error with updated false and the pass goes on.
C2_InstallFailureRecorded ==
    \A i \in DOMAIN trace :
        (trace[i].ev = "install" /\ ~trace[i].ok) =>
            /\ raised = "none"
            /\ pc # "raised"
            /\ \E j \in DOMAIN error_list :
                  /\ "item" \in DOMAIN error_list[j]
                  /\ ItemKey(error_list[j].item) = <<trace[i].node, trace[i].name>>
                  /\ ~error_list[j].item.updated

\* C3: once a peer's inventory is compared, every name it holds that the local
\* inventory lacks has an accepted item with conditions exactly {missing: true},
\* and the pass goes on to the downloads.
C3_MissingAccepted ==
    (pc \in {"download", "raised"} /\ raised # "KeyError") =>
        \A f \in DOMAIN their_items \ DOMAIN own_items :
            /\ raised = "none"
            /\ \E i \in DOMAIN download_list :
                  /\ download_list[i].file.name = f
                  /\ DOMAIN download_list[i].checked_conditions = {"missing"}
                  /\ download_list[i].checked_conditions["missing"]

\* when sync returns its report, the decided items are each in exactly one list
ReportPartitionOnReturn ==
    (pc = "done" /\ calls > 0) =>
        \A d \in decided : Occurrences(ItemKey(d.item)) = 1

\* C4: a failed inventory fetch adds exactly one entry (peer, code, message) to
\* error and nothing to discard or updated, changes nothing the rest of the
\* pass reads, and moves on to the next peer; no download is ever requested
\* from a peer whose fetch failed.
C4_FetchFailureIsolated ==
    /\ [][Failed("files") =>
            /\ Len(error_list') = Len(error_list) + 1
            /\ SubSeq(error_list', 1, Len(error_list)) = error_list
            /\ DOMAIN Last(error_list') = {"node", "api_error", "code"}
            /\ Last(error_list').node = nodes[idx]
            /\ Last(error_list').code \in {1, 2, 3, 4, 5, 401}
            /\ discard_list' = discard_list
            /\ sychronize_list' = sychronize_list
            /\ decided' = decided
            /\ own_items' = own_items
            /\ disk' = disk
            /\ tmp' = tmp
            /\ raised' = "none"
            /\ pc' = "fetch"
            /\ idx' = idx + 1]_vars
    /\ [](\A i, j \in DOMAIN trace :
            (trace[i].ev = "files" /\ ~trace[i].ok) =>
                ~(trace[j].ev \in {"download", "install"}
                  /\ trace[j].node = trace[i].node))

\* a pass in which the fetch from the first peer failed and a file of the
\* second peer was updated
C4_Witness ==
    /\ pc = "done"
    /\ Len(nodes) = 2
    /\ trace[1].ev = "files" /\ ~trace[1].ok
    /\ \E i \in DOMAIN sychronize_list : sychronize_list[i].node = nodes[2]
    /\ \E i \in DOMAIN discard_list : discard_list[i].node = nodes[2]

\* C5: a failed download appends the item and the reason to error, leaves its
\* updated flag false and the updated list, the disk and the queue as they
\* were (the installer is not called), and the loop goes on with the next
\* accepted item, or with the next peer after the last one; an item in error
\* is never in updated.
C5_DownloadFailureIsolated ==
    /\ [][Failed("download") =>
            /\ error_list' = Append(error_list,
                   [item |-> download_list[dl_idx], reason |-> Last(error_list').reason])
            /\ ~Last(error_list').item.updated
            /\ Last(trace').name = download_list[dl_idx].file.name
            /\ sychronize_list' = sychronize_list
            /\ download_list' = download_list
            /\ disk' = disk
            /\ tmp' = tmp
            /\ raised' = "none"
            /\ dl_idx' = dl_idx + 1
            /\ IF dl_idx < Len(download_list)
               THEN pc' = "download" /\ idx' = idx
               ELSE pc' = "fetch" /\ idx' = idx + 1]_vars
    /\ [](\A i \in DOMAIN error_list : \A j \in DOMAIN sychronize_list :
            "item" \in DOMAIN error_list[i] =>
                /\ ItemKey(error_list[i].item) # ItemKey(sychronize_list[j])
                /\ ~error_list[i].item.updated)

\* the first download of a peer failed, the second accepted item of that peer
\* was updated, and so was an item of the next peer
C5_Witness ==
    /\ pc = "done"
    /\ Len(nodes) = 2
    /\ \E i \in DOMAIN trace :
          /\ trace[i].ev = "download" /\ ~trace[i].ok /\ trace[i].node = nodes[1]
          /\ \E j \in DOMAIN sychronize_list :
                /\ sychronize_list[j].node = nodes[1]
                /\ sychronize_list[j].file.name # trace[i].name
          /\ \E j \in DOMAIN sychronize_list : sychronize_list[j].node = nodes[2]

(***************************************************************************)
(* Properties of the comparison                                            *)
(***************************************************************************)
\* the local record a decided item was compared with
LocalOf(d) == own_items[d.item.file.name]

\* what the three conditions say of remote record r and local record l
DifferentChecksum(r, l) == r.md5 # l.md5
RemoteTimeHigher(r, l) == r.modification_time > l.modification_time
LargerFileSize(r, l) == r.size > l.size

\* C6: a shared file is accepted if and only if every condition its remote
\* record declares is true of the two records (a record that declares none is
\* accepted), and it is in discard exactly when it is not accepted.
C6_AcceptIffAllDeclaredTrue ==
    \A d \in decided :
        LET r == d.item.file
            l == LocalOf(d)
        IN
        /\ d.accept = (/\ r.conditions.different_md5 => DifferentChecksum(r, l)
                       /\ r.conditions.remote_time_higher => RemoteTimeHigher(r, l)
                       /\ r.conditions.larger_file_size => LargerFileSize(r, l))
        /\ d.accept = (Count(discard_list, LAMBDA it : it = d.item) = 0)
        /\ Count(discard_list, LAMBDA it : it = d.item) <= 1

\* a file equal on both sides whose remote record declares no condition was
\* accepted and updated, and a pass discarded a file with a larger size only
C6_Witness ==
    \/ /\ pc = "done"
       /\ \E d \in decided :
             /\ \A c \in Range(CondNames) : ~d.item.file.conditions[c]
             /\ d.item.file.md5 = LocalOf(d).md5
             /\ d.accept
             /\ \E i \in DOMAIN sychronize_list :
                   ItemKey(sychronize_list[i]) = ItemKey(d.item)
    \/ /\ pc = "done"
       /\ \E d \in decided :
             /\ d.item.file.conditions.larger_file_size
             /\ ~d.item.file.conditions.different_md5
             /\ ~d.item.file.conditions.remote_time_higher
             /\ d.item.file.size = LocalOf(d).size
             /\ ~d.accept

\* C7 as stated: the map of evaluated results holds no result for a condition
\* that comes after the first false one.
C7_StopsAtFirstFalse ==
    \A d \in decided : \A i, j \in DOMAIN CondNames :
        (/\ i < j
         /\ CondNames[i] \in DOMAIN d.item.checked_conditions
         /\ ~d.item.checked_conditions[CondNames[i]])
        => CondNames[j] \notin DOMAIN d.item.checked_conditions

\* C7 as amended: the map of evaluated results holds the result of every
\* condition the remote record declares, those after a false one included,
\* and of no other condition.
C7_EveryDeclaredEvaluated ==
    \A d \in decided :
        LET r  == d.item.file
            l  == LocalOf(d)
            cc == d.item.checked_conditions
        IN
        /\ DOMAIN cc = {c \in Range(CondNames) : r.conditions[c]}
        /\ "different_md5" \in DOMAIN cc => cc["different_md5"] = DifferentChecksum(r, l)
        /\ "remote_time_higher" \in DOMAIN cc =>
               cc["remote_time_higher"] = RemoteTimeHigher(r, l)
        /\ "larger_file_size" \in DOMAIN cc =>
               cc["larger_file_size"] = LargerFileSize(r, l)

\* a discarded item whose checksum condition is false and whose map also
\* holds the results of the two conditions after it
C7_Witness ==
    \E i \in DOMAIN discard_list :
        LET cc == discard_list[i].checked_conditions IN
        /\ DOMAIN cc = Range(CondNames)
        /\ ~cc["different_md5"]
        /\ cc["larger_file_size"]

(***************************************************************************)
(* Properties of a second pass                                             *)
(***************************************************************************)
\* the local inventory entry of the file of item it equals its remote record
LocalMatches(it) ==
    /\ it.file.name \in DOMAIN own_items
    /\ own_items[it.file.name] =
           [md5 |-> it.file.md5, size |-> it.file.size,
            modification_time |-> it.file.modification_time]

\* C8 as stated: in a pass after one that updated a file, with the peers
\* unchanged and the local entry equal to the remote record, the file is not
\* updated again.
C8_SecondPassUpdatesNothing ==
    \A i \in DOMAIN prev_updated : \A j \in DOMAIN sychronize_list :
        LocalMatches(prev_updated[i]) =>
            sychronize_list[j].file.name # prev_updated[i].file.name

\* C8 as amended: the same, for a file whose remote record declares at least
\* one condition, and for the peer it was updated from.
C8_SecondPassSkipsDeclared ==
    \A i \in DOMAIN prev_updated : \A j \in DOMAIN sychronize_list :
        (/\ LocalMatches(prev_updated[i])
         /\ \E c \in Range(CondNames) : prev_updated[i].file.conditions[c]
         /\ sychronize_list[j].node = prev_updated[i].node)
        => sychronize_list[j].file.name # prev_updated[i].file.name

\* a second pass that discarded the file the first pass updated
C8_Witness ==
    /\ calls = 2
    /\ pc = "done"
    /\ \E i \in DOMAIN prev_updated : \E j \in DOMAIN discard_list :
          /\ LocalMatches(prev_updated[i])
          /\ ItemKey(discard_list[j]) = ItemKey(prev_updated[i])
          /\ discard_list[j].file = prev_updated[i].file

(***************************************************************************)
(* Properties of send_request_api                                          *)
(***************************************************************************)
\* the code the classification of the outcomes gives to input in
ExpectedCode(in) ==
    IF in.o.exc = "none" /\ in.o.status = 401 THEN 401
    ELSE IF in.o.exc \in {"Timeout", "ConnectTimeout"} THEN 1
    ELSE IF in.o.exc = "TooManyRedirects" THEN 2
    ELSE IF in.o.exc = "ConnectionError" THEN 3
    ELSE IF in.o.exc # "none" THEN 4
    ELSE IF in.type = "json" /\ in.o.text.json = NotJson THEN 5
    ELSE 0

\* C9: send_request_api returns a pair for every outcome of the GET; its code
\* is the one the classification gives, with code 0 comes the decoded payload,
\* and code 5 is not returned when raw text was requested.
C9_OutcomeClassified ==
    pc = "done" =>
        /\ DOMAIN api_out = {"error", "data"}
        /\ api_out.error = ExpectedCode(api_in)
        /\ api_out.error = 0 =>
               api_out.data = IF api_in.type = "json" THEN api_in.o.text.json
                              ELSE api_in.o.text
        /\ api_in.type = "text" => api_out.error # 5

\* a connect timeout, which is a connection error and a timeout, got code 1
C9_Witness ==
    /\ pc = "done"
    /\ api_in.o.exc = "ConnectTimeout"
    /\ api_out.error = 1

(***************************************************************************)
(* Properties of cluster_nodes                                             *)
(***************************************************************************)
\* C10: cluster_nodes ends by returning one entry per configured peer, in
\* configuration order, with totalItems the number of peers; a failed probe
\* gives status disconnected with its error, a successful one connected with
\* the node identity; no response makes it raise.
C10_OneEntryPerPeer ==
    /\ pc # "raised"
    /\ pc = "done" =>
          /\ ret.totalItems = Len(nodes)
          /\ Len(ret.items) = Len(nodes)
          /\ \A i \in DOMAIN ret.items :
                /\ ret.items[i].url = nodes[i]
                /\ IF trace[i].ok
                   THEN /\ ret.items[i].status = "connected"
                        /\ ret.items[i].node = NodeName(nodes[i])
                   ELSE /\ ret.items[i].status = "disconnected"
                        /\ ret.items[i].error.code # 0

(***************************************************************************)
(* Properties of update_file                                               *)
(***************************************************************************)
\* the step of the running call of update_file whose event is trace[i] failed
StepFailed(i, steps) == trace[i].ev \in steps /\ ~trace[i].ok

\* C11: when a step of update_file before the rename has failed (write,
\* ownership, permissions, timestamp), no temporary file of the target is on
\* the disk.
C11_NoTemporaryLeft ==
    \A i \in DOMAIN trace :
        StepFailed(i, {"write", "chown", "chmod", "utime"}) =>
            trace[i].name \notin DOMAIN tmp

\* the file of the call of update_file is complete: it has the content, the
\* modification time, the owner and the mode the call gives it
Complete(file) ==
    /\ file.md5 = api_in.content.md5
    /\ file.size = api_in.content.size
    /\ file.modification_time = api_in.mtime
    /\ file.user = "ossec"
    /\ file.group = "ossec"
    /\ file.mode = ServiceMode

\* C12: every step of update_file other than the rename, and every step that
\* fails, leaves all target paths as they were; the rename puts the complete
\* temporary file at the target path and changes no other target path.
C12_TargetChangedOnlyByRename ==
    [][IF pc = "rename" /\ pc' = "done"
       THEN /\ api_in.fullpath \in DOMAIN tmp
            /\ Complete(tmp[api_in.fullpath])
            /\ DOMAIN disk' = DOMAIN disk \cup {api_in.fullpath}
            /\ disk'[api_in.fullpath] = tmp[api_in.fullpath]
            /\ \A n \in DOMAIN disk \ {api_in.fullpath} : disk'[n] = disk[n]
       ELSE disk' = disk]_vars

\* a call that replaced a target of other content, owner and mode, next to
\* another target
C12_Witness ==
    /\ pc = "done"
    /\ Len(trace) = 6
    /\ trace[1] = Event("open", 0, "a", TRUE)
    /\ DOMAIN disk = {"a", "b"}
    /\ Complete(disk["a"])
    /\ disk["b"].user = "root"
    /\ disk["b"].md5 # disk["a"].md5
    /\ "a" \notin DOMAIN tmp

\* the permissions the nine low bits of a mode grant
PermNames == <<"ur", "uw", "ux", "gr", "gw", "gx", "or", "ow", "ox">>

Permissions(mode) ==
    {PermNames[i] : i \in {j \in DOMAIN PermNames :
                              (mode \div (2 ^ (Len(PermNames) - j))) % 2 = 1}}

\* C13: the owner, group and mode update_file gives the installed file do not
\* depend on the owner, group and mode the caller passes: any two calls that
\* differ in them only leave the same files, and the installed file belongs
\* to user ossec and group ossec with owner and group read-write and nothing
\* else.
C13_FixedOwnerAndMode ==
    /\ pc = "idle" =>
          \A d1, d2 \in Declared :
              UpdateFile(disk, tmp, api_in.fullpath, api_in.content,
                         d1.user, d1.group, d1.mode, api_in.mtime, "none")
              = UpdateFile(disk, tmp, api_in.fullpath, api_in.content,
                           d2.user, d2.group, d2.mode, api_in.mtime, "none")
    /\ pc = "done" =>
          /\ disk[api_in.fullpath].user = "ossec"
          /\ disk[api_in.fullpath].group = "ossec"
          /\ Permissions(disk[api_in.fullpath].mode) = {"ur", "uw", "gr", "gw"}

\* a call that passed owner root, group root and mode 0o777 for a target that
\* belonged to root
C13_Witness ==
    /\ pc = "done"
    /\ trace[3] = Event("chown", 0, "a", TRUE)
    /\ api_in.owner = "root"
    /\ api_in.group = "root"
    /\ api_in.mode = 511
    /\ disk["a"].user = "ossec"
    /\ disk["a"].mode = ServiceMode

(***************************************************************************)
(* Properties of the installs of a pass                                    *)
(***************************************************************************)
\* this step appended an item to the list 'updated'
Updated == Len(sychronize_list') = Len(sychronize_list) + 1

\* C14: when sync puts an item in 'updated', the file at the target path has
\* the checksum, the size and the modification time of the item's remote
\* record, whatever the peer sent as the content.
C14_InstalledEqualsRecord ==
    [][Updated =>
          LET item == Last(sychronize_list')
              file == disk'[item.file.name]
          IN /\ file.md5 = item.file.md5
             /\ file.size = item.file.size
             /\ file.modification_time = item.file.modification_time]_vars

(***************************************************************************)
(* Properties of the order of a pass                                       *)
(***************************************************************************)
\* the names the local inventory holds and the inventory of peer p does not
MissingRemotely(p) == DOMAIN own_items \ DOMAIN peer_files[p]

\* C15: a name that is in the local inventory and not in the inventory of a
\* peer has no item for that peer: none in discard, error or updated, none
\* decided or queued for download, and no request to that peer names it.
C15_NoItemForLocalOnly ==
    \A p \in Range(nodes) : \A n \in MissingRemotely(p) :
        /\ Occurrences(<<p, n>>) = 0
        /\ \A d \in decided : ItemKey(d.item) # <<p, n>>
        /\ \A i \in DOMAIN download_list : ItemKey(download_list[i]) # <<p, n>>
        /\ \A i \in DOMAIN trace : ~(trace[i].node = p /\ trace[i].name = n)

\* a pass that updated file a from a peer that has no file b, while the local
\* file b stayed as it was
C15_Witness ==
    /\ pc = "done"
    /\ \E i \in DOMAIN sychronize_list :
          /\ sychronize_list[i].file.name = "a"
          /\ "b" \in MissingRemotely(sychronize_list[i].node)
    /\ GetFiles(disk)["b"] = own_items["b"]

\* the position in the configuration of peer p
IndexOf(p) == CHOOSE k \in DOMAIN nodes : nodes[k] = p

\* the number of inventory requests among the first i events of the pass
FetchesUpTo(i) == Count(SubSeq(trace, 1, i), LAMBDA e : e.ev = "files")

\* event j is the download of item it, answered, and followed at once by the
\* attempt to install it when the download succeeded; all of it before event i
Handled(it, j, i) ==
    /\ j < i
    /\ trace[j].ev = "download"
    /\ <<trace[j].node, trace[j].name>> = ItemKey(it)
    /\ trace[j].ok =>
          /\ j + 1 < i
          /\ trace[j + 1].ev = "install"
          /\ <<trace[j + 1].node, trace[j + 1].name>> = ItemKey(it)

\* C16: the inventory requests of a pass go to the peers in configuration
\* order; every download and install belongs to the peer whose inventory was
\* requested last, and the download names an item that this inventory
\* produced; and when the inventory of the next peer is requested, every
\* accepted item of the peers before it has had its download answered and,
\* when downloaded, its install attempted.
C16_PeersOneAfterTheOther ==
    \A i \in DOMAIN trace :
        LET k == FetchesUpTo(i) IN
        IF trace[i].ev = "files"
        THEN /\ k <= Len(nodes)
             /\ trace[i].node = nodes[k]
             /\ \A d \in decided :
                   (d.accept /\ IndexOf(d.item.node) < k) =>
                       \E j \in DOMAIN trace : Handled(d.item, j, i)
        ELSE /\ k >= 1
             /\ trace[i].node = nodes[k]
             /\ \E d \in decided :
                   /\ d.accept
                   /\ ItemKey(d.item) = <<trace[i].node, trace[i].name>>
                   /\ d.item.file.md5 = peer_files[nodes[k]][trace[i].name].md5

\* a pass that downloaded two files from the first peer, one of them in vain,
\* before it requested the inventory of the second peer and downloaded from it
C16_Witness ==
    /\ pc = "done"
    /\ Len(nodes) = 2
    /\ \E i \in DOMAIN trace :
          /\ trace[i] = Event("files", nodes[2], "", TRUE)
          /\ \E j1, j2 \in 1..(i - 1) :
                /\ trace[j1] = Event("download", nodes[1], "a", FALSE)
                /\ trace[j2] = Event("download", nodes[1], "b", TRUE)
          /\ \E j \in DOMAIN trace :
                j > i /\ trace[j].ev = "install" /\ trace[j].node = nodes[2]

(***************************************************************************)
(* Properties of the local inventory of a pass                             *)
(***************************************************************************)
\* every condition remote record r declares is true of r and local record l
DeclaredAllTrue(r, l) ==
    /\ r.conditions.different_md5 => DifferentChecksum(r, l)
    /\ r.conditions.remote_time_higher => RemoteTimeHigher(r, l)
    /\ r.conditions.larger_file_size => LargerFileSize(r, l)

\* the decided items of name n that were accepted
AcceptedFor(n) == {d \in decided : d.accept /\ d.item.file.name = n}

\* the number of installs of name n that succeeded in this pass
InstallsOf(n) ==
    Count(trace, LAMBDA e : e.ev = "install" /\ e.name = n /\ e.ok)

\* the number of download requests for item it in this pass
DownloadsOf(it) ==
    Count(trace, LAMBDA e : e.ev = "download" /\ <<e.node, e.name>> = ItemKey(it))

\* the accepted item of name n of the peer that comes last in the configuration
LastAccepted(n) ==
    CHOOSE d \in AcceptedFor(n) :
        \A e \in AcceptedFor(n) : IndexOf(e.item.node) <= IndexOf(d.item.node)

====
